---- MODULE Spec2Model ----
(***************************************************************************)
(* A model of thorn.c: main() allocates a raster with thorn(), which fills  *)
(* it with escape-time counts inside an OpenMP parallel-for over the rows,  *)
(* then pgmwrite() serialises the raster as a binary PGM file and main()    *)
(* frees the buffer.                                                        *)
(*                                                                          *)
(* Floating point is not modelled.  The only thing the program does with    *)
(* the trajectory (ir, ii) is the escape test of line 156, so a cell's      *)
(* trajectory is represented by escStep: the number of the first            *)
(* application of the recurrence after which ir*ir + ii*ii < escape is      *)
(* false (NaN included), or NoEscape when the test never fails.  It is a    *)
(* function of the cell alone, as zr, zi and the parameters are.            *)
(***************************************************************************)
EXTENDS Integers, Sequences, FiniteSets, TLC

\* ------------------------------------------------------------------ bounds
MaxCells == 4        \* rasters of at most this many cells (width*height)
MaxWorkers == 2      \* threads in the OpenMP team
SmallMaxiter == 2    \* a small iteration cap, between 0 and UINT8_MAX
MaxCalls == 3        \* thorn() calls in a long-lived session

\* ------------------------------------------------------- program constants
UINT8_MAX == 255
NULL == 0            \* the null pointer; heap blocks are 1, 2, ...
NoEscape == 0        \* escStep of a trajectory whose escape test never fails
Unwritten == -1      \* content of a cell of fresh storage no one has written

Workers == 1..MaxWorkers
\* Trajectories that escape at once, at the SmallMaxiter-th application, never
EscSteps == {1, SmallMaxiter, NoEscape}
MaxiterSet == {0, SmallMaxiter, UINT8_MAX}
Dims == {d \in (1..MaxCells) \X (1..MaxCells) : d[1] * d[2] <= MaxCells}

\* (uint8_t) conversion of a non-negative integer
ToUint8(n) == n % (UINT8_MAX + 1)

\* ------------------------------------------------------------------ engine
\* The escape test after the n-th application of the recurrence, for a
\* trajectory with escape step e.
EscapeTest(e, n) == e = NoEscape \/ n < e

\* do { body } while (k++ < maxiter && (ir*ir + ii*ii) < escape);
\* The loop's state is <<k, running>>.  One trip runs the body and evaluates
\* the condition: k++ compares the old k and always increments, and the
\* escape test, on the trajectory after k + 1 applications, is evaluated only
\* when the comparison held.  A trip of a loop that has exited does nothing.
LoopTrip(st, mi, e) ==
    IF st[2]
    THEN <<st[1] + 1, st[1] < mi /\ EscapeTest(e, st[1] + 1)>>
    ELSE st

\* Four and sixteen trips in a row (the loop unrolled, to bound the depth of
\* the recursion below).
LoopTrip4(st, mi, e) ==
    LoopTrip(LoopTrip(LoopTrip(LoopTrip(st, mi, e), mi, e), mi, e), mi, e)
LoopTrip16(st, mi, e) ==
    LoopTrip4(LoopTrip4(LoopTrip4(LoopTrip4(st, mi, e), mi, e), mi, e), mi, e)

RECURSIVE DoWhile(_, _, _)
DoWhile(st, mi, e) ==
    IF st[2] THEN DoWhile(LoopTrip16(st, mi, e), mi, e) ELSE st[1]

\* size_t k = 0; do ... while; the value of k at line 157, for each iteration
\* cap and escape step of the model.  (f @@ <<>> is f; it has TLC run the
\* loops once and keep the results.)
IterTable ==
    [a \in MaxiterSet \X EscSteps |-> DoWhile(<<0, TRUE>>, a[1], a[2])] @@ <<>>

IterCount(mi, e) == IterTable[<<mi, e>>]

\* (*buf)[i*width + j] = k : the stored byte
StoredCount(mi, e) == ToUint8(IterCount(mi, e))

\* i*width + j
CellIndex(i, j, w) == i * w + j

CellsOf(w, h) == 0..(w * h - 1)


\* ------------------------------------------------------------------- state
VARIABLES
    width, height,   \* size_t width, height
    maxiter,         \* (uint8_t) maxiter as thorn() receives it
    escStep,         \* [<<i, j>> -> escape step of the cell's trajectory]
    pc,              \* where main() is
    mainRet,         \* "running", or the value main() returned
    buf,             \* main's uint8_t *buf: NULL or a heap block
    live,            \* heap blocks obtained from realloc and not released
    allocs, frees,   \* successful realloc calls, free calls so far
    data,            \* contents of the storage, by offset
    writes,          \* how often each offset has been stored to
    count,           \* [<<i, j>> -> the cell's size_t k], 0 until its loop has run
    wpos,            \* each thread's <<i, j>>, or <<>> when it holds no row
    rowsTaken,       \* iterations of the i loop handed to some thread
    ran,             \* the threads that were handed an iteration
    forked,          \* the parallel region has been entered
    maxval,          \* pgmwrite's maxval
    file,            \* bytes of the destination file
    fileExists,      \* the destination file has been created
    ioErr,           \* some fopen, fprintf, fputc or fclose has failed
    pgmRet,          \* <<>>, or <<r>> once pgmwrite returned r
    calls            \* thorn() calls made

vars == <<width, height, maxiter, escStep, pc, mainRet, buf, live,
          allocs, frees, data, writes, count, wpos, rowsTaken, ran, forked,
          maxval, file, fileExists, ioErr, pgmRet, calls>>

paramVars == <<width, height, maxiter, escStep>>
heapVars == <<buf, live, allocs, frees>>
rasterVars == <<data, writes, count>>
teamVars == <<wpos, rowsTaken, ran, forked>>
pgmVars == <<maxval, file, fileExists, ioErr, pgmRet>>

Rows == 0..(height - 1)
Cols == 0..(width - 1)
Grid(w, h) == (0..(h - 1)) \X (0..(w - 1))
\* The OpenMP team.  A team of fewer threads behaves as this one does when
\* some of its threads are handed no iteration.
Team == Workers

\* --------------------------------------------------------------- allocator
\* realloc(p, n) for n > 0: the outcomes [ptr, live] the C library allows.
\* On failure it returns NULL and the old block stays allocated; on success
\* the block is resized in place or moved to a fresh block, the old one freed.
Realloc(p, lv, fresh) ==
    {[ptr |-> NULL, live |-> lv, ok |-> FALSE]}
    \cup {[ptr |-> fresh, live |-> (lv \ {p}) \cup {fresh}, ok |-> TRUE]}
    \cup (IF p = NULL THEN {} ELSE {[ptr |-> p, live |-> lv, ok |-> TRUE]})

FreshStorage(w, h) == [c \in CellsOf(w, h) |-> Unwritten]
NoWrites(w, h) == [c \in CellsOf(w, h) |-> 0]

\* ---------------------------------------------------------------- thorn()
\* *buf = realloc(*buf, width*height*sizeof(buf[0][0])); if (!*buf) return;
\* then the parallel region is entered.
ThornAlloc ==
    /\ pc = "call_thorn"
    /\ \E r \in Realloc(buf, live, allocs + 1) :
          /\ buf' = r.ptr
          /\ live' = r.live
          /\ allocs' = IF r.ok THEN allocs + 1 ELSE allocs
          /\ forked' = r.ok
          /\ pc' = IF r.ok THEN "in_thorn" ELSE "thorn_ret"
    /\ calls' = calls + 1
    /\ UNCHANGED <<paramVars, mainRet, frees, rasterVars, wpos, rowsTaken,
                   ran, pgmVars>>

\* As RowAvailable, with the work-sharing lost ("omp parallel" without "for"):
\* every thread may run every iteration.
RowAlwaysAvailable(i) == i = i

\* omp parallel for: iteration i of the outer loop may be handed to a thread
\* when it has not been handed out yet.
RowAvailable(i) == i \notin rowsTaken

\* The program never looks at a thread's number, so the threads are numbered
\* in the order in which they are first handed an iteration.
ClaimRow(t, i) ==
    /\ forked
    /\ wpos[t] = <<>>
    /\ \A u \in Team : u < t => u \in ran
    /\ i \in Rows
    /\ RowAvailable(i)
    /\ wpos' = [wpos EXCEPT ![t] = <<i, 0>>]
    /\ rowsTaken' = rowsTaken \cup {i}
    /\ ran' = ran \cup {t}
    /\ UNCHANGED <<paramVars, pc, mainRet, heapVars, rasterVars, forked,
                   pgmVars, calls>>

\* One pass of the j loop body: run the do-while for cell (i, j) and store k.
ComputeCell(t) ==
    /\ forked
    /\ wpos[t] # <<>>
    /\ LET i == wpos[t][1]
           j == wpos[t][2]
           c == CellIndex(i, j, width)
           k == IterCount(maxiter, escStep[<<i, j>>])
       IN  /\ count' = [count EXCEPT ![<<i, j>>] = k]
           /\ data' = [data EXCEPT ![c] = ToUint8(k)]
           /\ writes' = [writes EXCEPT ![c] = @ + 1]
           /\ wpos' = [wpos EXCEPT ![t] =
                          IF j + 1 < width THEN <<i, j + 1>> ELSE <<>>]
    /\ UNCHANGED <<paramVars, pc, mainRet, heapVars, rowsTaken, ran, forked,
                   pgmVars, calls>>

\* As JoinReady, without waiting for the threads ("nowait"): the region is
\* left once every iteration has been handed out.
JoinWhenHandedOut == rowsTaken = Rows

\* The implicit barrier at the end of the parallel for: every iteration has
\* been run to its end.
JoinReady == rowsTaken = Rows /\ \A t \in Team : wpos[t] = <<>>

Join ==
    /\ pc = "in_thorn"
    /\ JoinReady
    /\ pc' = "thorn_ret"
    /\ UNCHANGED <<paramVars, mainRet, heapVars, rasterVars, teamVars,
                   pgmVars, calls>>

\* -------------------------------------------------------------- pgmwrite()
\* for i, for j: maxval = data[i*width + j] > maxval ? data[i*width + j] : maxval
\* from the n-th cell in scan order on, with mv the maximum so far.
RECURSIVE ScanFrom(_, _, _, _, _)
ScanFrom(d, w, h, n, mv) ==
    IF n >= w * h THEN mv
    ELSE LET v == d[CellIndex(n \div w, n % w, w)]
         IN  ScanFrom(d, w, h, n + 1, IF v > mv THEN v ELSE mv)

\* As ScanMax, with the first cell left out of the scan.
ScanMaxSkipFirst(d, w, h) == ScanFrom(d, w, h, 1, 0)

\* uint8_t maxval = 0; followed by the scan
ScanMax(d, w, h) == ScanFrom(d, w, h, 0, 0)

\* printf's %u, %zu conversions: the decimal digits, as ASCII bytes
RECURSIVE DecDigits(_)
DecDigits(n) ==
    IF n < 10 THEN <<48 + n>>
    ELSE DecDigits(n \div 10) \o <<48 + (n % 10)>>

\* The comment main() builds with snprintf: one line of text, no newline.
\* Its text is shortened to "Th".
Comment == <<84, 104>>

\* "P5\n", "# %s\n", "%zu %zu\n", "%u\n"
Header(w, h, mv) ==
    <<80, 53, 10>> \o <<35, 32>> \o Comment \o <<10>>
    \o DecDigits(w) \o <<32>> \o DecDigits(h) \o <<10>>
    \o DecDigits(mv) \o <<10>>

\* for i, for j: fputc((uint8_t) data[i*width + j], f)
PixelBytes(d, w, h) ==
    [n \in 1..(w * h) |-> ToUint8(d[CellIndex((n - 1) \div w, (n - 1) % w, w)])]

\* What a load from the storage yields: the byte stored, or, for a cell that
\* was never stored to, whatever g the fresh storage held.
Loaded(g) == [c \in DOMAIN data |-> IF data[c] = Unwritten THEN g ELSE data[c]]
Garbage == {0, UINT8_MAX}

EncoderStates == {"pgm_open", "pgm_scan", "pgm_header", "pgm_pixels", "pgm_close"}

\* FILE *f = fopen(name, "w"); if (!f) { perror(...); return 1; }
PgmOpen ==
    /\ pc = "pgm_open"
    /\ \E ok \in BOOLEAN :
          IF ok
          THEN /\ file' = <<>>
               /\ fileExists' = TRUE
               /\ pc' = "pgm_scan"
               /\ UNCHANGED <<ioErr, pgmRet>>
          ELSE /\ ioErr' = TRUE
               /\ pgmRet' = <<1>>
               /\ pc' = "free"
               /\ UNCHANGED <<file, fileExists>>
    /\ UNCHANGED <<paramVars, mainRet, heapVars, rasterVars, teamVars,
                   maxval, calls>>

\* The first pass over data.
PgmScan ==
    /\ pc = "pgm_scan"
    /\ \E g \in Garbage : maxval' = ScanMax(Loaded(g), width, height)
    /\ pc' = "pgm_header"
    /\ UNCHANGED <<paramVars, mainRet, heapVars, rasterVars, teamVars,
                   file, fileExists, ioErr, pgmRet, calls>>

\* The fprintf calls of the header; their results are not looked at.  When
\* they fail the header's bytes do not reach the file.
PgmHeader ==
    /\ pc = "pgm_header"
    /\ \E ok \in BOOLEAN :
          /\ file' = IF ok THEN file \o Header(width, height, maxval) ELSE file
          /\ ioErr' = (ioErr \/ ~ok)
    /\ pc' = "pgm_pixels"
    /\ UNCHANGED <<paramVars, mainRet, heapVars, rasterVars, teamVars,
                   maxval, fileExists, pgmRet, calls>>

\* The second pass: one fputc per cell, results not looked at.  The first n
\* bytes reach the file; n is less than width*height when an fputc fails.
PgmPixels ==
    /\ pc = "pgm_pixels"
    /\ \E g \in Garbage, n \in 0..(width * height) :
          /\ file' = file \o SubSeq(PixelBytes(Loaded(g), width, height), 1, n)
          /\ ioErr' = (ioErr \/ n < width * height)
    /\ pc' = "pgm_close"
    /\ UNCHANGED <<paramVars, mainRet, heapVars, rasterVars, teamVars,
                   maxval, fileExists, pgmRet, calls>>

\* fclose(f); return 0;
PgmClose ==
    /\ pc = "pgm_close"
    /\ \E ok \in BOOLEAN : ioErr' = (ioErr \/ ~ok)
    /\ pgmRet' = <<0>>
    /\ pc' = "free"
    /\ UNCHANGED <<paramVars, mainRet, heapVars, rasterVars, teamVars,
                   maxval, file, fileExists, calls>>

\* ------------------------------------------------------------------ main()
\* As MainCheckBuf, without the test of buf.
MainNoCheckBuf ==
    /\ pc = "thorn_ret"
    /\ pc' = "pgm_open"
    /\ UNCHANGED <<paramVars, mainRet, heapVars, rasterVars, teamVars, pgmVars,
                   calls>>

\* if (!buf) return ENOMEM; otherwise go on to pgmwrite(...)
MainCheckBuf ==
    /\ pc = "thorn_ret"
    /\ IF buf = NULL
       THEN pc' = "exit" /\ mainRet' = "ENOMEM"
       ELSE pc' = "pgm_open" /\ UNCHANGED mainRet
    /\ UNCHANGED <<paramVars, heapVars, rasterVars, teamVars, pgmVars, calls>>

\* pgmwrite's result is dropped; free(buf); return EXIT_SUCCESS;
MainFree ==
    /\ pc = "free"
    /\ live' = live \ {buf}
    /\ frees' = frees + 1
    /\ mainRet' = "EXIT_SUCCESS"
    /\ pc' = "exit"
    /\ UNCHANGED <<paramVars, buf, allocs, rasterVars, teamVars, pgmVars, calls>>

\* The state main() is in when it reaches line 112 with parsed options.
Init ==
    /\ \E d \in Dims :
          /\ width = d[1]
          /\ height = d[2]
          /\ escStep \in [Grid(d[1], d[2]) -> EscSteps]
          /\ count = [p \in Grid(d[1], d[2]) |-> 0]
          /\ data = FreshStorage(d[1], d[2])
          /\ writes = NoWrites(d[1], d[2])
    /\ maxiter \in MaxiterSet
    /\ wpos = [t \in Workers |-> <<>>]
    /\ rowsTaken = {}
    /\ ran = {}
    /\ forked = FALSE
    /\ pc = "call_thorn"
    /\ mainRet = "running"
    /\ buf = NULL
    /\ live = {}
    /\ allocs = 0
    /\ frees = 0
    /\ maxval = 0
    /\ file = <<>>
    /\ fileExists = FALSE
    /\ ioErr = FALSE
    /\ pgmRet = <<>>
    /\ calls = 0

Next ==
    \/ ThornAlloc
    \/ \E t \in Team, i \in Rows : ClaimRow(t, i)
    \/ \E t \in Team : ComputeCell(t)
    \/ Join
    \/ MainCheckBuf
    \/ PgmOpen
    \/ PgmScan
    \/ PgmHeader
    \/ PgmPixels
    \/ PgmClose
    \/ MainFree

Spec == Init /\ [][Next]_vars

\* ----------------------------------------------------------------- session
\* A caller that keeps one handle and calls thorn() on it repeatedly with
\* varying sizes, as the comment on thorn() provides for.  One call: the
\* realloc, and, when it succeeded, the whole parallel region.  Every cell of
\* the call has escape step e.
ThornCall(w, h, e) ==
    /\ pc = "session"
    /\ calls < MaxCalls
    /\ calls' = calls + 1
    /\ \E r \in Realloc(buf, live, allocs + 1) :
          /\ buf' = r.ptr
          /\ live' = r.live
          /\ allocs' = IF r.ok THEN allocs + 1 ELSE allocs
          /\ IF r.ok
             THEN /\ width' = w
                  /\ height' = h
                  /\ escStep' = [p \in Grid(w, h) |-> e]
                  /\ count' = [p \in Grid(w, h) |-> IterCount(maxiter, e)]
                  /\ data' = [c \in CellsOf(w, h) |-> StoredCount(maxiter, e)]
                  /\ writes' = [c \in CellsOf(w, h) |-> 1]
             ELSE UNCHANGED <<width, height, escStep, count, data, writes>>
    /\ UNCHANGED <<maxiter, pc, mainRet, frees, teamVars, pgmVars>>

\* The caller releases what its handle points to: free(buf); buf = NULL;
CallerFree ==
    /\ pc = "session"
    /\ buf # NULL
    /\ live' = live \ {buf}
    /\ frees' = frees + 1
    /\ buf' = NULL
    /\ UNCHANGED <<paramVars, pc, mainRet, allocs, rasterVars, teamVars,
                   pgmVars, calls>>

SessionInit ==
    /\ width = 1
    /\ height = 1
    /\ escStep = [p \in Grid(1, 1) |-> NoEscape]
    /\ count = [p \in Grid(1, 1) |-> 0]
    /\ data = FreshStorage(1, 1)
    /\ writes = NoWrites(1, 1)
    /\ maxiter \in MaxiterSet
    /\ wpos = [t \in Workers |-> <<>>]
    /\ rowsTaken = {}
    /\ ran = {}
    /\ forked = FALSE
    /\ pc = "session"
    /\ mainRet = "running"
    /\ buf = NULL
    /\ live = {}
    /\ allocs = 0
    /\ frees = 0
    /\ maxval = 0
    /\ file = <<>>
    /\ fileExists = FALSE
    /\ ioErr = FALSE
    /\ pgmRet = <<>>
    /\ calls = 0

SessionNext ==
    \/ \E d \in Dims, e \in EscSteps : ThornCall(d[1], d[2], e)
    \/ CallerFree

SessionSpec == SessionInit /\ [][SessionNext]_vars

\* --------------------------------------------------------------- a reader
\* A reader of the binary PGM format, used to state what a written file
\* holds: "P5", then width, height and maxval in decimal, separated by white
\* space with "#" comments running to the end of the line, one white-space
\* byte, then width*height pixels in row-major order, one byte each when
\* maxval < 256 and two bytes, most significant first, otherwise.
IsSpace(b) == b \in {9, 10, 13, 32}
IsDigit(b) == b \in 48..57

RECURSIVE SkipLine(_, _)
SkipLine(s, p) ==
    IF p > Len(s) THEN p
    ELSE IF s[p] = 10 THEN p + 1 ELSE SkipLine(s, p + 1)

RECURSIVE SkipSpace(_, _)
SkipSpace(s, p) ==
    IF p > Len(s) THEN p
    ELSE IF IsSpace(s[p]) THEN SkipSpace(s, p + 1)
    ELSE IF s[p] = 35 THEN SkipSpace(s, SkipLine(s, p + 1))
    ELSE p

RECURSIVE ReadNumber(_, _, _)
ReadNumber(s, p, acc) ==
    IF p <= Len(s) /\ IsDigit(s[p])
    THEN ReadNumber(s, p + 1, acc * 10 + (s[p] - 48))
    ELSE [val |-> acc, pos |-> p]

NotPgm == [ok |-> FALSE, width |-> 0, height |-> 0, maxval |-> 0, pixels |-> <<>>]

Decode(s) ==
    IF Len(s) < 2 \/ s[1] # 80 \/ s[2] # 53 THEN NotPgm
    ELSE
    LET p1 == SkipSpace(s, 3)
        wn == ReadNumber(s, p1, 0)
        p2 == SkipSpace(s, wn.pos)
        hn == ReadNumber(s, p2, 0)
        p3 == SkipSpace(s, hn.pos)
        mn == ReadNumber(s, p3, 0)
        first == mn.pos + 1
        bpp == IF mn.val < 256 THEN 1 ELSE 2
        n == wn.val * hn.val
    IN  IF \/ wn.pos = p1 \/ hn.pos = p2 \/ mn.pos = p3
           \/ mn.pos > Len(s) \/ ~IsSpace(s[mn.pos])
           \/ Len(s) - first + 1 # n * bpp
        THEN NotPgm
        ELSE [ok |-> TRUE, width |-> wn.val, height |-> hn.val,
              maxval |-> mn.val,
              pixels |-> [q \in 1..n |->
                            IF bpp = 1 THEN s[first + q - 1]
                            ELSE s[first + 2 * (q - 1)] * 256
                                 + s[first + 2 * (q - 1) + 1]]]

\* The pixel a decoded file holds for cell (i, j)
PixelAt(img, i, j) == img.pixels[i * img.width + j + 1]

SetMax(S) == CHOOSE m \in S : \A x \in S : x <= m

\* ================================================================== claims
\* thorn() has returned to main() with a raster.
ThornDone == pc \notin {"call_thorn", "in_thorn", "session"} /\ allocs > 0

\* pgmwrite() returned 0 and no I/O operation failed: the file is written.
Written == pgmRet = <<0>> /\ ~ioErr

\* What one thread running the two loops in order leaves in the buffer.
SequentialRaster ==
    [c \in CellsOf(width, height) |->
        StoredCount(maxiter, escStep[<<c \div width, c % width>>])]

PixelSet(img) == {img.pixels[q] : q \in 1..Len(img.pixels)}
CountSet == {count[p] : p \in Grid(width, height)}

\* C1: after thorn() completes, every count stored in the raster lies in
\* [1, maxiter + 1] and is never 0.
C1_RangeInvariant ==
    ThornDone =>
        \A c \in CellsOf(width, height) :
            data[c] # 0 /\ data[c] \in 1..(maxiter + 1)

\* C2: a cell whose trajectory passes the escape test after every
\* application of the recurrence has stored count exactly maxiter + 1.
C2_CapReached ==
    ThornDone =>
        \A p \in Grid(width, height) :
            escStep[p] = NoEscape =>
                data[CellIndex(p[1], p[2], width)] = maxiter + 1

\* C3: the final raster is the same for every number of threads, every
\* assignment of rows to threads and every interleaving: no cell is ever
\* stored to twice, and when thorn() returns every cell has been stored to
\* exactly once, by one thread, with the value the sequential loops give it.
C3_Determinism ==
    /\ \A c \in CellsOf(width, height) : writes[c] <= 1
    /\ ThornDone => \A c \in CellsOf(width, height) : writes[c] = 1
    /\ (pc = "thorn_ret" /\ allocs > 0) => data = SequentialRaster

C3_Witness ==
    /\ ThornDone
    /\ width >= 2 /\ height >= 2
    /\ Cardinality(ran) >= 2
    /\ data[CellIndex(0, 1, width)] # data[CellIndex(1, 1, width)]

\* C4: the maxval pgmwrite() puts in the header equals the maximum of the
\* pixel values it puts in the body; in a file whose writes all succeeded,
\* the maxval read back from the header is the maximum of the pixels read
\* back from the body.
C4_HeaderBodyConsistency ==
    /\ (pc \in {"pgm_header", "pgm_pixels", "pgm_close"} \/ pgmRet = <<0>>) =>
          \A g \in Garbage :
              LET px == PixelBytes(Loaded(g), width, height)
              IN  maxval = SetMax({px[q] : q \in 1..Len(px)})
    /\ Written =>
          LET img == Decode(file)
          IN  img.ok /\ img.maxval = SetMax(PixelSet(img))

C4_Witness ==
    /\ Written
    /\ width >= 2 /\ height >= 2
    /\ LET img == Decode(file)
       IN  /\ Cardinality(PixelSet(img)) >= 2
           /\ img.maxval # img.pixels[1]

C6_RoundTrip ==
    Written =>
        LET img == Decode(file)
        IN  /\ img.ok
            /\ img.width = width
            /\ img.height = height
            /\ \A p \in Grid(width, height) :
                  PixelAt(img, p[1], p[2]) = count[p]

\* C7: a failure to open, write or close the destination is reported:
\* pgmwrite() returns success only when the whole file was written, and the
\* run does not report success after an encoder failure.
C7_IOFailureReported ==
    /\ pgmRet = <<0>> => ~ioErr
    /\ mainRet = "EXIT_SUCCESS" => ~ioErr

\* main() has called thorn() and its realloc returned NULL.
AllocFailed == calls > 0 /\ allocs = 0 /\ pc # "session"

\* C8: when the raster cannot be allocated, thorn() writes no cell and
\* leaves the caller's handle NULL, main() returns ENOMEM, the encoder is
\* never invoked, no file is created and nothing is freed.
C8_AtomicAllocFailure ==
    AllocFailed =>
        /\ buf = NULL
        /\ live = {}
        /\ ~forked
        /\ \A c \in CellsOf(width, height) :
              writes[c] = 0 /\ data[c] = Unwritten
        /\ pc \in {"thorn_ret", "exit"}
        /\ pgmRet = <<>> /\ ~fileExists /\ file = <<>>
        /\ frees = 0
        /\ pc = "exit" => mainRet = "ENOMEM"

C8_Witness == AllocFailed /\ pc = "exit" /\ mainRet = "ENOMEM"

\* The state part of C9.
LifecycleInv ==
    /\ allocs <= 1 /\ frees <= 1
    /\ pc \in EncoderStates =>
          /\ allocs = 1 /\ frees = 0 /\ buf \in live
          /\ \A c \in CellsOf(width, height) : writes[c] = 1
          /\ rowsTaken = Rows
          /\ \A t \in Team : wpos[t] = <<>>
    /\ frees = 1 => pgmRet # <<>> /\ live = {}
    /\ (pc = "exit" /\ allocs = 1) => frees = 1

\* C9: the raster is allocated once; every cell has been written and every
\* thread has finished before the encoder runs; nothing writes the raster
\* while the encoder runs; the buffer is freed once, after the encoder has
\* returned, whether it succeeded or failed.
C9_Lifecycle ==
    /\ []LifecycleInv
    /\ [][(pc \in EncoderStates \/ pgmRet # <<>>)
              => (data' = data /\ writes' = writes)]_vars

C9_Witness ==
    /\ pc = "exit" /\ allocs = 1 /\ frees = 1
    /\ pgmRet = <<0>> /\ ioErr
    /\ width >= 2 /\ height >= 2
    /\ Cardinality(ran) >= 2

\* C10: after every thorn() call on the same handle, successful or failed,
\* all storage obtained and not yet released is reachable through the
\* caller's handle.
C10_OwnershipKept == live \subseteq {buf}

====
